---------------------------- MODULE Spec2Model ----------------------------
(***************************************************************************)
(* A model of fortune-cookie/server.js: the deterministic fortune selector *)
(* (GET /api/fortune) and the cached AI fortune (POST /api/fortune-ai).    *)
(*                                                                         *)
(* Strings are sequences of UTF-16 code units, as JavaScript sees them     *)
(* (s.length is Len(s), s.charCodeAt(i) is s[i+1]).  JavaScript values     *)
(* that reach the handlers from JSON bodies and cookies are tagged records *)
(* [t, s, n]: t is the type, s the string (when t = "str"), n the integer  *)
(* (when t = "num").                                                       *)
(***************************************************************************)
EXTENDS Integers, Sequences, FiniteSets, TLC

VARIABLES
    now,        \* Date.now(): the clock, in epoch milliseconds
    hasKey,     \* whether process.env.OPENAI_API_KEY is set
    aiCache,    \* the Map aiCache: composite key -> [fortune, expiresAt]
    req,        \* per request slot: the locals of the POST handler awaiting there
    last,       \* the POST exchange that ended last: its locals and its response
    nCalls,     \* POST requests that reached line 133 so far
    nTick,      \* clock steps taken so far
    firstGen,   \* history: key -> the first entry ever written for it
    wroteAt,    \* history: key -> the clock value of the latest write
    madeBy,     \* history: key -> the key components of the request that wrote it
    hostTz,     \* the time zone of the host the server runs on
    classic,    \* the latest GET /api/fortune exchange
    pure        \* the latest call of a function on its own: arguments and result

vars == <<now, hasKey, aiCache, req, last, nCalls, nTick, firstGen, wroteAt, madeBy, hostTz,
          classic, pure>>

aiVars == <<hasKey, aiCache, req, last, nCalls, firstGen, wroteAt, madeBy>>

-----------------------------------------------------------------------------
(* Bounds of the model.                                                    *)

MaxCalls == 2       \* POST requests that reach the provider, per behaviour
MaxTicks == 2       \* clock steps per behaviour

Slots == {1, 2}     \* requests that can be in flight at once

-----------------------------------------------------------------------------
(* Code units and string literals.                                         *)

LF == 10
CR == 13
SP == 32
COLON == 58
BAR == 124
MINUS == 45
ELLIPSIS == 8230

\* The code units String.prototype.trim removes (WhiteSpace and
\* LineTerminator of ECMAScript).
IsWhite(c) ==
    \/ c \in {9, 10, 11, 12, 13, 32, 160, 5760, 8232, 8233, 8239, 8287, 12288, 65279}
    \/ c \in 8192..8202

IsDigit(c) == c \in 48..57

S_en == <<101, 110>>
S_tr == <<116, 114>>
S_de == <<100, 101>>
S_relationship == <<114, 101, 108, 97, 116, 105, 111, 110, 115, 104, 105, 112>>
S_null == <<110, 117, 108, 108>>

-----------------------------------------------------------------------------
(* JavaScript values.                                                      *)

JsStr(s) == [t |-> "str", s |-> s, n |-> 0]
JsNum(n) == [t |-> "num", s |-> <<>>, n |-> n]
Undefined == [t |-> "undefined", s |-> <<>>, n |-> 0]
JsNull == [t |-> "null", s |-> <<>>, n |-> 0]
\* An object whose toString is not callable, such as the JSON value
\* {"toString": null}: converting it to a string throws a TypeError.
JsObj == [t |-> "object", s |-> <<>>, n |-> 0]
\* The number m * 10^e for a digit m in 1..9 and e >= 21, such as the JSON
\* value 1e21: a number that Number::toString renders in exponent notation,
\* "1e+21".  s holds the digits of e.
JsExp(m, e) == [t |-> "exp", s |-> e, n |-> m]

\* ToBoolean
Truthy(v) ==
    CASE v.t = "str" -> v.s # <<>>
      [] v.t = "num" -> v.n # 0
      [] v.t = "object" -> TRUE
      [] v.t = "exp" -> TRUE
      [] OTHER -> FALSE

\* Whether ToString(v) throws.
StringThrows(v) == v.t = "object"

RECURSIVE Digits(_)
Digits(n) == IF n < 10 THEN <<48 + n>> ELSE Digits(n \div 10) \o <<48 + (n % 10)>>

\* ToString(v) for the values that have one.
ToStr(v) ==
    CASE v.t = "str" -> v.s
      [] v.t = "num" -> IF v.n < 0 THEN <<MINUS>> \o Digits(-v.n) ELSE Digits(v.n)
      [] v.t = "null" -> S_null
      [] v.t = "exp" -> <<48 + v.n, 101, 43>> \o v.s
      [] OTHER -> <<117, 110, 100, 101, 102, 105, 110, 101, 100>>


-----------------------------------------------------------------------------
(* Library functions the handlers use, on these strings.                   *)

RECURSIVE DropWhite(_)
DropWhite(s) == IF s # <<>> /\ IsWhite(Head(s)) THEN DropWhite(Tail(s)) ELSE s

RECURSIVE DropWhiteEnd(_)
DropWhiteEnd(s) ==
    IF s # <<>> /\ IsWhite(s[Len(s)]) THEN DropWhiteEnd(SubSeq(s, 1, Len(s) - 1)) ELSE s

\* String.prototype.trim
Trim(s) == DropWhiteEnd(DropWhite(s))

\* s.replace(/\r/g, '')
RemoveCR(s) == SelectSeq(s, LAMBDA c : c # CR)

\* s.split('\n'): the segments between line feeds, empty ones included.
RECURSIVE SplitLF(_)
SplitLF(s) ==
    IF \A i \in 1..Len(s) : s[i] # LF
    THEN <<s>>
    ELSE LET k == CHOOSE i \in 1..Len(s) : s[i] = LF /\ \A j \in 1..(i - 1) : s[j] # LF
         IN <<SubSeq(s, 1, k - 1)>> \o SplitLF(SubSeq(s, k + 1, Len(s)))

\* lines.join('\n')
RECURSIVE JoinLF(_)
JoinLF(ls) ==
    IF ls = <<>> THEN <<>>
    ELSE IF Len(ls) = 1 THEN ls[1]
    ELSE ls[1] \o <<LF>> \o JoinLF(Tail(ls))

\* a.slice(0, n) for n >= 0
Slice0(a, n) == SubSeq(a, 1, IF n < Len(a) THEN n ELSE Len(a))

\* The value of the longest prefix of decimal digits of s, which has one.
RECURSIVE DigitsValue(_, _)
DigitsValue(s, acc) ==
    IF s # <<>> /\ IsDigit(Head(s))
    THEN DigitsValue(Tail(s), acc * 10 + (Head(s) - 48))
    ELSE acc

\* parseInt(v, 10) for a value v that converts to a string: leading white
\* space is skipped, one sign is accepted, the digits that follow are read
\* and the rest is ignored; NaN when no digit follows.
ParseInt(v) ==
    LET s == DropWhite(ToStr(v))
        neg == s # <<>> /\ Head(s) = MINUS
        u == IF s # <<>> /\ Head(s) \in {MINUS, 43} THEN Tail(s) ELSE s
    IN IF u = <<>> \/ ~IsDigit(Head(u))
       THEN [nan |-> TRUE, n |-> 0]
       ELSE [nan |-> FALSE, n |-> IF neg THEN -DigitsValue(u, 0) ELSE DigitsValue(u, 0)]

Min(a, b) == IF a < b THEN a ELSE b
Max(a, b) == IF a > b THEN a ELSE b

\* /^\d{4}-\d{2}-\d{2}$/.test(s)
IsLocalDate(s) ==
    /\ Len(s) = 10
    /\ \A i \in {1, 2, 3, 4, 6, 7, 9, 10} : IsDigit(s[i])
    /\ s[5] = MINUS
    /\ s[8] = MINUS

-----------------------------------------------------------------------------
(* formatFortune(text, lines, maxPerLine), server.js lines 74-84.          *)

maxPerLine == 140

\* Mutant of Truncate: the cut keeps maxPerLine code units before the marker.
TruncateKeepsCap(s, cap) == IF Len(s) > cap THEN SubSeq(s, 1, cap) \o <<ELLIPSIS>> ELSE s

\* s.length > maxPerLine ? s.slice(0, maxPerLine - 1) + '…' : s
Truncate(s, cap) == IF Len(s) > cap THEN SubSeq(s, 1, cap - 1) \o <<ELLIPSIS>> ELSE s

formatFortuneCap(text, lines, cap) ==
    LET cleaned == Trim(RemoveCR(text))
    IN IF cleaned = <<>> THEN <<>>
       ELSE LET segs == SplitLF(cleaned)
                trimmed == [i \in 1..Len(segs) |-> Trim(segs[i])]
                kept == SelectSeq(trimmed, LAMBDA l : l # <<>>)
                first == Slice0(kept, lines)
            IN JoinLF([i \in 1..Len(first) |-> Truncate(first[i], cap)])

formatFortune(text, lines) == formatFortuneCap(text, lines, maxPerLine)

-----------------------------------------------------------------------------
(* POST /api/fortune-ai, server.js lines 63-151.                           *)

\* crypto.randomBytes(16).toString('hex'): 32 hexadecimal digits.  The model
\* draws the token from two values.
HexId(d) == [i \in 1..32 |-> d]
FreshIds == {HexId(97), HexId(98)}

\* Mutant of ttlMsFromLocalDate: a day.
ttlMsOneDay(localDate) == 24 * 3600 * 1000

\* ttlMsFromLocalDate(), line 110: called with localDate, which it ignores.
ttlMsFromLocalDate(localDate) == 26 * 3600 * 1000

fallbackTr ==
    <<66, 117, 103, 252, 110, 32, 97, 231, 305, 107, 32, 107, 111, 110, 117, 351,
      109, 97, 107, 32, 98, 97, 287, 305, 110, 305, 122, 305, 32, 111, 110, 97,
      114, 97, 98, 105, 108, 105, 114, 46>>
fallbackEn ==
    <<83, 112, 101, 97, 107, 32, 112, 108, 97, 105, 110, 108, 121, 32, 116, 111,
      100, 97, 121, 59, 32, 114, 101, 112, 97, 105, 114, 32, 98, 101, 103, 105,
      110, 115, 32, 116, 104, 101, 114, 101, 46>>

\* The request body after express.json(): the four fields the handler
\* destructures; a field the body lacks is Undefined.
Body(lang, theme, lines, localDate) ==
    [lang |-> lang, theme |-> theme, lines |-> lines, localDate |-> localDate]

\* A destructuring default: used when the field is undefined.
Default(v, d) == IF v.t = "undefined" THEN d ELSE v

\* lang = (lang === 'tr' ? 'tr' : 'en')
NormLang(v) == IF v = JsStr(S_tr) THEN S_tr ELSE S_en

\* Math.min(Math.max(parseInt(lines, 10) || 1, 1), 2), for a lines value
\* that converts to a string.
NormLines(v) ==
    LET p == ParseInt(v)
        n == IF p.nan \/ p.n = 0 THEN 1 ELSE p.n
    IN Min(Max(n, 1), 2)

\* /^\d{4}-\d{2}-\d{2}$/.test(localDate || ''), for a localDate that
\* converts to a string.
DateTest(v) == IsLocalDate(IF Truthy(v) THEN ToStr(v) ELSE <<>>)

\* `${userId}:${lang}:${theme}:${lines}:${localDate}`
MakeKey(userId, lang, theme, lines, localDate) ==
    ToStr(userId) \o <<COLON>> \o lang \o <<COLON>> \o ToStr(theme) \o <<COLON>>
        \o Digits(lines) \o <<COLON>> \o ToStr(localDate)

\* userId.slice(0,8) in the two console.log calls throws a TypeError when
\* userId is not a string: cookie-parser turns a cookie value "j:<json>"
\* into the parsed JSON value, so req.cookies.fcid can be a number.
SliceThrows(userId) == userId.t # "str"

\* Mutant of IsLive: the comparison admits the instant of expiry.
IsLiveAtExpiry(entry, t) == entry.expiresAt >= t

\* cached && cached.expiresAt > Date.now()
IsLive(entry, t) == entry.expiresAt > t

\* Mutant of Fallback: the English text whatever the language.
FallbackAlwaysEn(rawLang) ==
    [status |-> 200, source |-> "fallback", cached |-> FALSE, error |-> "",
     fortune |-> fallbackEn]

\* Mutant of Fallback: the catch block answers with a server error.
FallbackStatus500(rawLang) ==
    [status |-> 500, source |-> "fallback", cached |-> FALSE, error |-> "",
     fortune |-> IF rawLang = JsStr(S_tr) THEN fallbackTr ELSE fallbackEn]

\* The catch block's response, lines 143-150.
Fallback(rawLang) ==
    [status |-> 200, source |-> "fallback", cached |-> FALSE, error |-> "",
     fortune |-> IF rawLang = JsStr(S_tr) THEN fallbackTr ELSE fallbackEn]

NoResp == [status |-> 0, source |-> "", cached |-> FALSE, error |-> "", fortune |-> <<>>]

IdleReq ==
    [pc |-> "idle", cookie |-> Undefined, userId |-> Undefined, setCookie |-> Undefined,
     rawLang |-> Undefined, lang |-> <<>>, theme |-> Undefined, lines |-> 0,
     localDate |-> Undefined, key |-> <<>>,
     \* history, for the properties: whether localDate was present and
     \* well-formed; what aiCache.get found ("none": not called, "absent",
     \* "live", or "expired": the clock had reached expiresAt); whether the
     \* request came before the expiry of the first entry written for its
     \* key; how far the provider call got ("none", "nokey", "sent");
     \* whether the provider answered; the formatted fortune; whether the
     \* cache was written; and where an exception was thrown
     dateOk |-> FALSE, seen |-> "none", inFirstTtl |-> FALSE, call |-> "none",
     returned |-> FALSE, gen |-> <<>>, wrote |-> FALSE, threw |-> "none"]

\* Mutant of getOrSetUserId: a new token for every request.
getOrSetUserIdAlwaysNew(cookie, fresh) ==
    [id |-> JsStr(fresh), setCookie |-> JsStr(fresh)]

\* getOrSetUserId(req, res), lines 66-72: the cookie's value when it is
\* truthy, else a fresh token, which res.cookie hands to the client.
getOrSetUserId(cookie, fresh) ==
    IF Truthy(cookie)
    THEN [id |-> cookie, setCookie |-> Undefined]
    ELSE [id |-> JsStr(fresh), setCookie |-> JsStr(fresh)]

\* Whether localDate is present and matches the pattern (history only).
DateOk(v) == Truthy(v) /\ ~StringThrows(v) /\ IsLocalDate(ToStr(v))

\* Lines 113-133: the handler up to its await, as the pair of the request's
\* locals and the response it sends (status 0: none yet, the provider call
\* is pending).  Exceptions land in the catch block of lines 143-150.
HandlePost(cookie, body, fresh) ==
    LET linesV == Default(body.lines, JsNum(2))
        themeV == Default(body.theme, JsStr(S_relationship))
        lang == NormLang(Default(body.lang, JsStr(S_en)))
        r0 == [IdleReq EXCEPT !.pc = "done", !.cookie = cookie, !.rawLang = body.lang,
                              !.lang = lang, !.theme = themeV,
                              !.dateOk = DateOk(body.localDate)]
    IN IF StringThrows(linesV)
       THEN [req |-> [r0 EXCEPT !.threw = "lines"], resp |-> Fallback(body.lang)]
       ELSE
       LET r1 == [r0 EXCEPT !.lines = NormLines(linesV), !.localDate = body.localDate] IN
       IF Truthy(body.localDate) /\ StringThrows(body.localDate)
       THEN [req |-> [r1 EXCEPT !.threw = "localDate"], resp |-> Fallback(body.lang)]
       ELSE IF ~DateTest(body.localDate)
       THEN [req |-> r1,
             resp |-> [NoResp EXCEPT !.status = 400,
                                     !.error = "localDate (YYYY-MM-DD) is required"]]
       ELSE
       LET u == getOrSetUserId(cookie, fresh)
           r2 == [r1 EXCEPT !.userId = u.id, !.setCookie = u.setCookie]
       IN IF StringThrows(u.id) \/ StringThrows(themeV)
          THEN [req |-> [r2 EXCEPT !.threw = "key"], resp |-> Fallback(body.lang)]
          ELSE
          LET key == MakeKey(u.id, lang, themeV, r1.lines, body.localDate)
              present == key \in DOMAIN aiCache
              live == present /\ IsLive(aiCache[key], now)
              r3 == [r2 EXCEPT !.key = key,
                               !.seen = IF ~present THEN "absent"
                                        ELSE IF now >= aiCache[key].expiresAt
                                        THEN "expired" ELSE "live",
                               !.inFirstTtl = /\ key \in DOMAIN firstGen
                                              /\ now < firstGen[key].expiresAt]
          IN IF live
             THEN IF SliceThrows(u.id)
                  THEN [req |-> [r3 EXCEPT !.threw = "log"], resp |-> Fallback(body.lang)]
                  ELSE [req |-> r3,
                        resp |-> [NoResp EXCEPT !.status = 200, !.source = "cache",
                                                !.cached = TRUE,
                                                !.fortune = aiCache[key].fortune]]
             ELSE [req |-> [r3 EXCEPT !.pc = "awaiting",
                                      !.call = IF hasKey THEN "sent" ELSE "nokey"],
                   resp |-> NoResp]

\* Mutant of CacheSet: an entry that is already there is kept.
CacheSetKeepsFirst(cache, key, fortune, t, localDate) ==
    IF key \in DOMAIN cache THEN cache
    ELSE [k \in DOMAIN cache \cup {key} |->
            IF k = key
            THEN [fortune |-> fortune, expiresAt |-> t + ttlMsFromLocalDate(localDate)]
            ELSE cache[k]]

\* Mutant of CacheSet: a write drops the entries that have expired.
CacheSetEvicting(cache, key, fortune, t, localDate) ==
    [k \in {j \in DOMAIN cache : cache[j].expiresAt > t} \cup {key} |->
        IF k = key
        THEN [fortune |-> fortune, expiresAt |-> t + ttlMsFromLocalDate(localDate)]
        ELSE cache[k]]

\* aiCache.set(key, { fortune, expiresAt: Date.now() + ttlMsFromLocalDate(localDate) })
CacheSet(cache, key, fortune, t, localDate) ==
    [k \in DOMAIN cache \cup {key} |->
        IF k = key
        THEN [fortune |-> fortune, expiresAt |-> t + ttlMsFromLocalDate(localDate)]
        ELSE cache[k]]

\* Mutant of emptyResult: the check is missing.
emptyResultUnchecked(fortune) == FALSE

\* if (!fortune), line 135
emptyResult(fortune) == fortune = <<>>

\* The components line 125 builds the key of a request from.
KeyParts(r) ==
    [userId |-> r.userId, lang |-> r.lang, theme |-> r.theme, lines |-> r.lines,
     localDate |-> r.localDate]

\* History of the writes: the first entry written for a key, and the clock
\* value of the latest write.
NoteWrite(key) ==
    /\ firstGen' = IF key \in DOMAIN firstGen THEN firstGen
                   ELSE [k \in DOMAIN firstGen \cup {key} |->
                            IF k = key THEN aiCache'[key] ELSE firstGen[k]]
    /\ wroteAt' = [k \in DOMAIN wroteAt \cup {key} |-> IF k = key THEN now ELSE wroteAt[k]]

-----------------------------------------------------------------------------
(* The requests and provider answers the model draws from.                 *)

D_ok == <<50, 48, 50, 52, 45, 48, 49, 45, 48, 49>>       \* "2024-01-01"
D_slashes == <<50, 48, 50, 52, 47, 48, 49, 47, 48, 49>>  \* "2024/01/01"
D_zero == <<48, 48, 48, 48, 45, 48, 48, 45, 48, 48>>     \* "0000-00-00"
D_abc == <<97, 98, 99>>

\* The requests, as pairs of the fcid cookie and the body.  A returning
\* client presents the token HexId(97) it was issued earlier.
Returning == JsStr(HexId(97))

Requests ==
    {<<Returning, Body(Undefined, Undefined, Undefined, JsStr(D_ok))>>,
     <<Returning, Body(JsStr(S_tr), Undefined, JsStr(<<120>>), JsStr(D_zero))>>,
     <<Returning, Body(Undefined, JsObj, Undefined, JsStr(D_ok))>>,
     <<Returning, Body(JsStr(S_tr), Undefined, JsObj, JsStr(D_ok))>>,
     <<Returning, Body(JsStr(S_de), Undefined, Undefined, JsObj)>>,
     <<Returning, Body(Undefined, Undefined, Undefined, Undefined)>>,
     <<Returning, Body(JsStr(S_tr), Undefined, Undefined, JsStr(D_slashes))>>,
     <<Returning, Body(Undefined, Undefined, Undefined, JsStr(D_abc))>>,
     <<Returning, Body(Undefined, Undefined, Undefined, JsStr(<<>>))>>,
     <<Returning, Body(Undefined, Undefined, Undefined, JsNull)>>,
     <<Returning, Body(Undefined, Undefined, Undefined, JsNum(20240101))>>,
     <<Returning, Body(Undefined, Undefined, JsObj, JsStr(D_abc))>>,
     <<Undefined, Body(Undefined, Undefined, Undefined, JsStr(D_ok))>>,
     <<Undefined, Body(Undefined, JsObj, Undefined, JsStr(D_ok))>>,
     <<Undefined, Body(Undefined, Undefined, Undefined, JsStr(D_abc))>>,
     \* the cookie "fcid=j:7", which cookie-parser turns into the number 7
     <<JsNum(7), Body(Undefined, Undefined, Undefined, JsStr(D_ok))>>}

\* The provider's message content: absent, or a text of at most MaxRawLen
\* code units over a letter, a space, a line feed and a carriage return.
MaxRawLen == 2
RawAlphabet == {97, SP, LF, CR}
RawTexts == UNION {[1..n -> RawAlphabet] : n \in 0..MaxRawLen}
Contents == {Undefined} \cup {JsStr(t) : t \in RawTexts}

\* The clock steps: one millisecond, and one millisecond less than the TTL.
TickSteps == {1, ttlMsFromLocalDate(Undefined) - 1}

-----------------------------------------------------------------------------
(* The actions of POST /api/fortune-ai.                                    *)

\* The tokens getOrSetUserId can draw for this request: it draws one only
\* when the cookie is missing or falsy.
FreshFor(cookie) == IF Truthy(cookie) THEN {HexId(97)} ELSE FreshIds

\* A request arrives and runs to its response or to the await of line 133,
\* where it waits in the first free slot.
PostFortuneAi(s, cookie, body) ==
    /\ req[s].pc = "idle"
    /\ \A z \in Slots : z < s => req[z].pc # "idle"
    /\ \E fresh \in FreshFor(cookie) :
          \E h \in {HandlePost(cookie, body, fresh)} :
             IF h.req.pc = "awaiting"
             THEN /\ nCalls < MaxCalls
                  /\ req' = [req EXCEPT ![s] = h.req]
                  /\ nCalls' = nCalls + 1
                  /\ UNCHANGED last
             ELSE /\ last' = h
                  /\ UNCHANGED <<req, nCalls>>
    /\ UNCHANGED <<now, hasKey, aiCache, nTick, firstGen, wroteAt, madeBy, hostTz, classic, pure>>

\* Mutant of Respond: the response is never sent.
RespondLost(s, r, rsp) == UNCHANGED <<req, last>>

\* The request of slot s ends with response rsp.
Respond(s, r, rsp) ==
    /\ last' = [req |-> [r EXCEPT !.pc = "done"], resp |-> rsp]
    /\ req' = [req EXCEPT ![s] = IdleReq]

\* Lines 106 and 133-142: the provider answered with `content`.
ProviderReturn(s, content) ==
    /\ req[s].pc = "awaiting"
    /\ req[s].call = "sent"
    /\ LET r == [req[s] EXCEPT !.returned = TRUE]
           text == IF Truthy(content) THEN content ELSE JsStr(<<>>)
       IN IF StringThrows(text)
          THEN /\ Respond(s, [r EXCEPT !.threw = "format"], Fallback(r.rawLang))
               /\ UNCHANGED <<aiCache, firstGen, wroteAt, madeBy>>
          ELSE
          LET fortune == formatFortune(ToStr(text), r.lines)
          IN IF emptyResult(fortune)
             THEN /\ Respond(s, [r EXCEPT !.gen = fortune], [NoResp EXCEPT !.status = 502,
                                                  !.error = "Empty AI result"])
                  /\ UNCHANGED <<aiCache, firstGen, wroteAt, madeBy>>
             ELSE /\ aiCache' = CacheSet(aiCache, r.key, fortune, now, r.localDate)
                  /\ NoteWrite(r.key)
                  /\ madeBy' = [k \in DOMAIN madeBy \cup {r.key} |->
                                   IF k = r.key THEN KeyParts(r) ELSE madeBy[k]]
                  /\ IF SliceThrows(r.userId)
                     THEN Respond(s, [r EXCEPT !.wrote = TRUE, !.gen = fortune,
                                               !.threw = "log"],
                                  Fallback(r.rawLang))
                     ELSE Respond(s, [r EXCEPT !.wrote = TRUE, !.gen = fortune],
                                  [NoResp EXCEPT !.status = 200, !.source = "openai",
                                                 !.fortune = fortune])
    /\ UNCHANGED <<now, hasKey, nCalls, nTick, hostTz, classic, pure>>

\* Lines 88, 99 and 143-150: generateWithOpenAI throws (no API key, a
\* network error, a response the client rejects).
ProviderThrow(s) ==
    /\ req[s].pc = "awaiting"
    /\ Respond(s, [req[s] EXCEPT !.threw = "provider"], Fallback(req[s].rawLang))
    /\ UNCHANGED <<now, hasKey, aiCache, nCalls, nTick, firstGen, wroteAt, madeBy, hostTz,
                   classic, pure>>

\* Time passes.
Tick(d) ==
    /\ nTick < MaxTicks
    /\ now' = now + d
    /\ nTick' = nTick + 1
    /\ UNCHANGED <<hasKey, aiCache, req, last, nCalls, firstGen, wroteAt, madeBy, hostTz,
                   classic, pure>>

-----------------------------------------------------------------------------
(* GET /api/fortune, server.js lines 19-61.                                *)
(*                                                                         *)
(* 32-bit integers are pairs [hi, lo] of 16-bit halves, the two's          *)
(* complement bit pattern: the integers of TLC are themselves 32 bits      *)
(* wide, and Math.abs(-2^31) = 2^31 is not one of them.                    *)

fortunes ==
    <<"A small step today becomes a milestone tomorrow.",
      "Your curiosity is your superpower.",
      "Luck favors the prepared mind.",
      "A door closes; a better one slides open.">>

W16 == 65536

Zero32 == [hi |-> 0, lo |-> 0]

\* h << 5
Shl5(h) ==
    [hi |-> ((h.hi * 32) + ((h.lo * 32) \div W16)) % W16, lo |-> (h.lo * 32) % W16]

\* (a - b) | 0
Sub32(a, b) ==
    LET borrow == IF a.lo < b.lo THEN 1 ELSE 0
    IN [hi |-> (a.hi - b.hi - borrow + 2 * W16) % W16, lo |-> (a.lo - b.lo + W16) % W16]

\* (a + c) | 0 for a code unit c
Add32(a, c) ==
    [hi |-> (a.hi + ((a.lo + c) \div W16)) % W16, lo |-> (a.lo + c) % W16]

IsNeg32(h) == h.hi >= 32768

\* Mutant of HashStep: the subtraction is missing, h = (h << 5) + c.
HashStepNoSubtract(h, c) == Add32(Shl5(h), c)

\* The loop of line 28: h = (h << 5) - h + s.charCodeAt(i); h |= 0.  The
\* sum is exact in double arithmetic, so only its wrap to 32 bits matters.
\* (The test h2.lo >= 0 is always true: it makes TLC compute h2
\* before it goes on to the next code unit.)
HashStep(h, c) == Add32(Sub32(Shl5(h), h), c)

RECURSIVE HashLoop(_, _, _)
HashLoop(h, s, i) ==
    IF i > Len(s) THEN h
    ELSE LET h2 == HashStep(h, s[i])
         IN IF h2.lo >= 0 THEN HashLoop(h2, s, i + 1) ELSE h2

\* Mutant of Abs32: Math.abs is missing, the sign is kept.
Signed32(h) ==
    IF h.hi >= 32768
    THEN LET m == Sub32(Zero32, h) IN [neg |-> TRUE, hi |-> m.hi, lo |-> m.lo]
    ELSE [neg |-> FALSE, hi |-> h.hi, lo |-> h.lo]

\* A JavaScript integer of magnitude at most 2^32 - 1, as sign and halves.
\* Math.abs(h) for the 32-bit h: the magnitude, 2^31 for h = -2^31.
Abs32(h) ==
    IF IsNeg32(h)
    THEN LET m == Sub32(Zero32, h) IN [neg |-> FALSE, hi |-> m.hi, lo |-> m.lo]
    ELSE [neg |-> FALSE, hi |-> h.hi, lo |-> h.lo]

hashString(s) == Abs32(HashLoop(Zero32, s, 1))

\* x % n for n in 1..1000: the remainder has the sign of the dividend x.
JsMod(x, n) ==
    LET m == (((x.hi % n) * (W16 % n)) + (x.lo % n)) % n
    IN IF x.neg THEN -m ELSE m

\* Lines 45-46: the seed and the index into a catalog of n fortunes.
Seed(today, ip, ua) == today \o <<BAR>> \o ip \o <<BAR>> \o ua
SelectIndex(today, ip, ua, n) == JsMod(hashString(Seed(today, ip, ua)), n)

(* Time zones.  The clock `now` counts milliseconds from                   *)
(* 2024-11-03T00:00:00Z.  A zone is its offset from UTC before and from    *)
(* an instant `switch` on; America/New_York leaves daylight time at        *)
(* 2024-11-03T06:00:00Z.                                                   *)

HourMs == 3600 * 1000
DayMs == 24 * HourMs

Z_UTC == <<85, 84, 67>>
Z_Tokyo == <<65, 115, 105, 97, 47, 84, 111, 107, 121, 111>>
Z_NewYork == <<65, 109, 101, 114, 105, 99, 97, 47, 78, 101, 119, 95, 89, 111, 114, 107>>
Z_Invalid == <<77, 97, 114, 115, 47, 80, 104, 111, 98, 111, 115>>

KnownZones == {Z_UTC, Z_Tokyo, Z_NewYork}

Zone(name) ==
    CASE name = Z_Tokyo -> [before |-> 9 * HourMs, after |-> 9 * HourMs, switch |-> 0]
      [] name = Z_NewYork -> [before |-> -4 * HourMs, after |-> -5 * HourMs,
                              switch |-> 6 * HourMs]
      [] OTHER -> [before |-> 0, after |-> 0, switch |-> 0]

\* The wall-clock reading of instant t in a zone, in ms.
ToWall(name, t) ==
    LET z == Zone(name) IN t + (IF t < z.switch THEN z.before ELSE z.after)

\* The instant of wall-clock reading w in a zone: a reading that occurs
\* twice, or never, is taken with the offset before the transition.
FromWall(name, w) ==
    LET z == Zone(name)
    IN IF w - z.before < z.switch \/ w - z.after < z.switch
       THEN w - z.before
       ELSE w - z.after

FloorDiv(a, b) == IF a >= 0 THEN a \div b ELSE -((-a + b - 1) \div b)

\* The en-CA rendering YYYY-MM-DD of the day a wall-clock reading falls in,
\* for readings within November 2024.
DateString(w) ==
    LET day == 3 + FloorDiv(w, DayMs)
    IN <<50, 48, 50, 52, 45, 49, 49, 45, 48 + (day \div 10), 48 + (day % 10)>>

\* getTodayDate(tz), lines 31-37: Intl.DateTimeFormat throws a RangeError
\* for a zone it does not know, and the catch renders in the host's zone.
getTodayDate(tz, host, t) ==
    IF tz \in KnownZones THEN DateString(ToWall(tz, t)) ELSE DateString(ToWall(host, t))

\* Mutant of NextMidnight: the midnight after the next one.
NextMidnightSkipsDay(host, t) ==
    FromWall(host, (FloorDiv(ToWall(host, t), DayMs) + 2) * DayMs)

\* next.setHours(24,0,0,0) on a Date at instant t, in the host's zone: the
\* instant of the next local midnight.
NextMidnight(host, t) ==
    FromWall(host, (FloorDiv(ToWall(host, t), DayMs) + 1) * DayMs)

\* Lines 48-58.  now.toLocaleString('en-US', {timeZone: tz}) is the wall
\* clock of tz to the second; new Date(...) reads it as a wall clock of the
\* host's zone.
secondsUntilNext(tz, host, t) ==
    IF tz \in KnownZones
    THEN LET local == FromWall(host, FloorDiv(ToWall(tz, t), 1000) * 1000)
         IN Max(0, FloorDiv(NextMidnight(host, local) - local, 1000))
    ELSE Max(0, FloorDiv(NextMidnight(host, t) - t, 1000))

\* Mutant of classicIndex: the seed is built from the tz parameter instead
\* of the date.
classicIndexSeedsTz(tz, host, t, ip, ua) == SelectIndex(tz, ip, ua, Len(fortunes))

\* Lines 44-46: the index the handler computes at instant t.
classicIndex(tz, host, t, ip, ua) ==
    SelectIndex(getTodayDate(tz, host, t), ip, ua, Len(fortunes))

-----------------------------------------------------------------------------
(* The GET requests the model draws from, and the action.                  *)

IP_10 == <<49, 48, 46, 48, 46, 48, 46, 49>>     \* "10.0.0.1"
UA_curl == <<99, 117, 114, 108, 47, 56>>        \* "curl/8"
\* "B5zbids": the seed "2024-11-03|10.0.0.1|B5zbids" hashes to -2^31.
UA_min == <<66, 53, 122, 98, 105, 100, 115>>

TzQueries == {Undefined, JsStr(Z_Tokyo), JsStr(Z_NewYork), JsStr(Z_Invalid)}
Ips == {Undefined, JsStr(IP_10)}
UserAgents == {Undefined, JsStr(UA_curl), JsStr(UA_min)}

\* The instants a behaviour of the selector starts at: midnight in UTC, in
\* New York and in Tokyo, and the last second and millisecond of the UTC day.
ClassicInstants == {0, 4 * HourMs, 15 * HourMs, DayMs - 1000, DayMs - 1}
ClassicTickSteps == {1, 999}

NoClassic ==
    [sent |-> FALSE, tz |-> <<>>, ip |-> <<>>, ua |-> <<>>, today |-> <<>>,
     idx |-> 0, fortune |-> "", secondsUntilNext |-> 0, source |-> "",
     \* history, for the properties: the whole seconds the wall clock of the
     \* request's (known) zone showed since midnight; whether the request
     \* came in the first of them; whether the exchange
     \* before this one had the same date string, IP and user-agent, and
     \* then whether it came with another tz, and its index
     sinceMidnight |-> 0, atMidnight |-> FALSE, prevSame |-> FALSE, prevOther |-> FALSE,
     prevIdx |-> 0]

\* v || d, for a string d
OrElse(v, d) == IF Truthy(v) THEN ToStr(v) ELSE d

\* Lines 39-61.
GetFortune(tzq, ipv, uav) ==
    /\ LET ua == OrElse(uav, <<>>)
           ip == OrElse(ipv, <<>>)
           tz == OrElse(tzq, Z_UTC)
           today == getTodayDate(tz, hostTz, now)
           same == /\ classic.sent
                   /\ classic.today = today /\ classic.ip = ip /\ classic.ua = ua
       IN \E idx \in {classicIndex(tz, hostTz, now, ip, ua)} : classic' =
            [sent |-> TRUE, tz |-> tz, ip |-> ip, ua |-> ua,
             today |-> today,
             idx |-> idx,
             fortune |-> IF idx \in 0..(Len(fortunes) - 1) THEN fortunes[idx + 1]
                         ELSE "undefined",
             secondsUntilNext |-> secondsUntilNext(tz, hostTz, now),
             source |-> "classic",
             sinceMidnight |-> IF tz \in KnownZones
                               THEN FloorDiv(ToWall(tz, now), 1000) % 86400
                               ELSE 0,
             atMidnight |-> /\ tz \in KnownZones
                            /\ FloorDiv(ToWall(tz, now), 1000) % 86400 = 0,
             prevSame |-> same,
             prevOther |-> same /\ classic.tz # tz,
             prevIdx |-> IF same THEN classic.idx ELSE 0]
    /\ UNCHANGED <<now, hasKey, aiCache, req, last, nCalls, nTick, firstGen, wroteAt, madeBy,
                   hostTz, pure>>

\* No function has been called on its own yet.
NoPure == [fn |-> "none"]

-----------------------------------------------------------------------------
(* The specifications: Spec is the AI endpoint with its cache, SpecClassic *)
(* the deterministic selector.                                             *)

Init ==
    /\ now = 0
    /\ hasKey \in BOOLEAN
    /\ aiCache = <<>>
    /\ req = [s \in Slots |-> IdleReq]
    /\ last = [req |-> IdleReq, resp |-> NoResp]
    /\ nCalls = 0
    /\ nTick = 0
    /\ firstGen = <<>>
    /\ wroteAt = <<>>
    /\ madeBy = <<>>
    /\ hostTz = Z_UTC
    /\ classic = NoClassic
    /\ pure = NoPure

Next ==
    \/ \E s \in Slots, rq \in Requests : PostFortuneAi(s, rq[1], rq[2])
    \/ \E s \in Slots, content \in Contents : ProviderReturn(s, content)
    \/ \E s \in Slots : ProviderThrow(s)
    \/ \E d \in TickSteps : Tick(d)

Spec == Init /\ [][Next]_vars

InitClassic ==
    /\ now \in ClassicInstants
    /\ hasKey = TRUE
    /\ aiCache = <<>>
    /\ req = [s \in Slots |-> IdleReq]
    /\ last = [req |-> IdleReq, resp |-> NoResp]
    /\ nCalls = 0
    /\ nTick = 0
    /\ firstGen = <<>>
    /\ wroteAt = <<>>
    /\ madeBy = <<>>
    /\ hostTz \in {Z_UTC, Z_NewYork}
    /\ classic = NoClassic
    /\ pure = NoPure

NextClassic ==
    \/ \E tzq \in TzQueries, ipv \in Ips, uav \in UserAgents : GetFortune(tzq, ipv, uav)
    \/ \E d \in ClassicTickSteps : Tick(d)

SpecClassic == InitClassic /\ [][NextClassic]_vars

\* SpecKeys is the AI endpoint for clients that choose their fcid cookie and
\* their theme: the cookie "u:en:x" with the default theme, the cookie "u"
\* with the theme "x:en:relationship", and a returning client.
Id_u == <<117>>
Id_u_en_x == <<117, COLON, 101, 110, COLON, 120>>
Theme_x_en_relationship == <<120, COLON, 101, 110, COLON>> \o S_relationship

RequestsKeys ==
    {<<JsStr(Id_u_en_x), Body(Undefined, Undefined, Undefined, JsStr(D_ok))>>,
     <<JsStr(Id_u), Body(Undefined, JsStr(Theme_x_en_relationship), Undefined, JsStr(D_ok))>>,
     <<Returning, Body(Undefined, Undefined, Undefined, JsStr(D_ok))>>}

NextKeys ==
    \/ \E s \in Slots, rq \in RequestsKeys : PostFortuneAi(s, rq[1], rq[2])
    \/ \E s \in Slots, content \in Contents : ProviderReturn(s, content)
    \/ \E s \in Slots : ProviderThrow(s)
    \/ \E d \in TickSteps : Tick(d)

SpecKeys == Init /\ [][NextKeys]_vars

\* SpecLive is the AI endpoint with a provider whose calls settle: the
\* promise awaited on line 133 is fulfilled or rejected in the end.
RequestsLive ==
    {<<Returning, Body(Undefined, Undefined, Undefined, JsStr(D_ok))>>,
     <<Returning, Body(JsStr(S_tr), Undefined, Undefined, JsStr(D_slashes))>>,
     <<Undefined, Body(JsStr(S_tr), Undefined, JsStr(<<120>>), JsStr(D_ok))>>,
     <<JsNum(7), Body(Undefined, Undefined, Undefined, JsStr(D_ok))>>}

ProviderSettles(s) ==
    \/ ProviderThrow(s)
    \/ \E content \in Contents : ProviderReturn(s, content)

NextLive ==
    \/ \E s \in Slots, rq \in RequestsLive : PostFortuneAi(s, rq[1], rq[2])
    \/ \E s \in Slots, content \in Contents : ProviderReturn(s, content)
    \/ \E s \in Slots : ProviderThrow(s)
    \/ \E d \in TickSteps : Tick(d)

SpecLive ==
    /\ Init
    /\ [][NextLive]_vars
    /\ \A s \in Slots : WF_vars(ProviderSettles(s))

-----------------------------------------------------------------------------
(* Properties.                                                             *)

\* The requests of POST /api/fortune-ai a state holds: those awaiting the
\* provider and the one that ended last.
Awaiting == {req[s] : s \in {z \in Slots : req[z].pc = "awaiting"}}
Ended == last.req.pc = "done"

TtlMs == 93600000

\* C1 (as stated): a request arriving before the expiry of the first entry
\* generated for its key does not call the provider, and is answered with
\* source "cache" and the text of that first generation.
C1_HitReturnsFirstGeneration ==
    /\ \A r \in Awaiting : ~r.inFirstTtl
    /\ (Ended /\ last.req.inFirstTtl) =>
          /\ last.req.call = "none"
          /\ last.resp.status = 200
          /\ last.resp.source = "cache"
          /\ last.resp.fortune = firstGen[last.req.key].fortune

\* C2: a request that finds an entry whose expiresAt the clock has reached
\* is not answered from the cache: it calls the provider, and when the
\* provider's formatted answer is not empty the entry becomes that text
\* with the expiry of that moment plus the TTL.
C2_State ==
    /\ \A r \in Awaiting : r.seen = "expired" => r.call = "sent"
    /\ (Ended /\ last.req.seen = "expired") =>
          /\ last.resp.source # "cache"
          /\ last.req.call = "sent"
          /\ (last.req.returned /\ last.req.gen # <<>>) => last.req.wrote

C2_Step ==
    \A s \in Slots :
        (/\ req[s].pc = "awaiting"
         /\ req[s].seen = "expired"
         /\ req'[s].pc = "idle"
         /\ last'.req.returned
         /\ last'.req.gen # <<>>)
        => /\ req[s].key \in DOMAIN aiCache'
           /\ aiCache'[req[s].key] =
                 [fortune |-> last'.req.gen, expiresAt |-> now + TtlMs]
           /\ aiCache'[req[s].key].expiresAt > aiCache[req[s].key].expiresAt

C2_ExpiredEntryIsRegenerated == [](C2_State) /\ [][C2_Step]_vars

\* C2, witness: a request found its key's entry expired exactly at
\* expiresAt and replaced the text.
C2_Witness ==
    /\ Ended
    /\ last.req.seen = "expired"
    /\ last.resp.source = "openai"
    /\ last.req.key \in DOMAIN firstGen
    /\ now = firstGen[last.req.key].expiresAt
    /\ aiCache[last.req.key].fortune # firstGen[last.req.key].fortune
    /\ aiCache[last.req.key].expiresAt = now + TtlMs

\* C3 (as stated): a request whose localDate is missing or malformed is
\* answered with 400, without a cache lookup, a cache write or a provider
\* call.
C3_BadDateIs400 ==
    (Ended /\ ~last.req.dateOk) =>
        /\ last.resp.status = 400
        /\ last.req.seen = "none"
        /\ last.req.call = "none"
        /\ ~last.req.wrote

\* C4: when the provider call throws, the response is 200 with source
\* "fallback" and the static text, the Turkish one exactly when the
\* request's lang is "tr".
C4_ProviderThrowGivesFallback ==
    (Ended /\ last.req.threw = "provider") =>
        /\ last.resp.status = 200
        /\ last.resp.source = "fallback"
        /\ last.resp.fortune # <<>>
        /\ last.resp.fortune = (IF last.req.rawLang = JsStr(S_tr) THEN fallbackTr
                                ELSE fallbackEn)
        /\ (last.req.lang = S_tr) <=> (last.resp.fortune = fallbackTr)

\* C4, witness: the provider threw for a Turkish request.
C4_Witness ==
    /\ Ended
    /\ last.req.threw = "provider"
    /\ last.req.rawLang = JsStr(S_tr)
    /\ last.resp.fortune = fallbackTr
    /\ fallbackTr # fallbackEn

\* C7: a response with source "openai" or "cache" carries a non-empty
\* text and every cache entry holds a non-empty fortune; a provider answer
\* whose formatted text is empty ends the request with 502, not with 400
\* or the fallback, and writes nothing.
C7_NoEmptyFortune ==
    /\ \A k \in DOMAIN aiCache : aiCache[k].fortune # <<>>
    /\ (Ended /\ last.resp.source \in {"openai", "cache"}) => last.resp.fortune # <<>>
    /\ (Ended /\ last.req.returned /\ last.req.gen = <<>> /\ last.req.threw = "none") =>
          /\ last.resp.status = 502
          /\ last.resp.source = ""
          /\ ~last.req.wrote

\* C7, witness: the provider answered with white space only, and the
\* request ended with 502 while the cache holds an entry.
C7_Witness ==
    /\ Ended
    /\ last.req.returned
    /\ last.req.gen = <<>>
    /\ last.resp.status = 502
    /\ aiCache # <<>>
    /\ last.req.key \notin DOMAIN aiCache

\* C8: every cache entry expires 26 hours (93,600,000 ms) after the clock
\* value at which it was written, whatever the localDate of its key, and a
\* cache hit leaves the entries as they are.
C8_State ==
    /\ DOMAIN wroteAt = DOMAIN aiCache
    /\ \A k \in DOMAIN aiCache : aiCache[k].expiresAt = wroteAt[k] + 93600000

C8_Step == (last' # last /\ last'.resp.source = "cache") => aiCache' = aiCache

C8_ExpiryIsWritePlusTtl == [](C8_State) /\ [][C8_Step]_vars

\* C8, witness: entries for two localDate values, "2024-01-01" and
\* "0000-00-00", written at different clock values, and a cache hit.
C8_Witness ==
    /\ Ended
    /\ last.resp.source = "cache"
    /\ \E k1, k2 \in DOMAIN aiCache :
          /\ wroteAt[k1] # wroteAt[k2]
          /\ SubSeq(k1, Len(k1) - 9, Len(k1)) = D_ok
          /\ SubSeq(k2, Len(k2) - 9, Len(k2)) = D_zero

\* C9: the only responses outside 2xx are the 400 for a missing or
\* malformed localDate and the 502 for an empty formatted provider answer;
\* every exception thrown in the handler is answered with 200 and source
\* "fallback".
C9_OnlyTwoErrorStatuses ==
    Ended =>
        /\ last.resp.status \in {200, 400, 502}
        /\ last.resp.status = 400 => (~last.req.dateOk /\ last.req.threw = "none")
        /\ last.resp.status = 502 =>
              (last.req.returned /\ last.req.gen = <<>> /\ last.req.threw = "none")
        /\ last.req.threw # "none" =>
              (last.resp.status = 200 /\ last.resp.source = "fallback")

\* C9, witness: the log line after the cache write threw, and the request
\* was answered with the fallback.
C9_Witness ==
    /\ Ended
    /\ last.req.threw = "log"
    /\ last.req.wrote
    /\ last.resp.status = 200
    /\ last.resp.source = "fallback"

\* The length in seconds of the host's local day that holds the instant
\* the handler takes for the request's local time.
HostDaySeconds ==
    IF hostTz = Z_NewYork THEN 90000 ELSE 86400

MaxCatalog == 6

\* C6: the index computed from a seed lies in [0, N) for the catalog of the
\* program and for every catalog size N from 1 to MaxCatalog, also when the
\* 32-bit hash of the seed is -2^31.
C6_IndexInRange ==
    classic.sent =>
        /\ classic.idx \in 0..(Len(fortunes) - 1)
        /\ \A n \in 1..MaxCatalog :
              SelectIndex(classic.today, classic.ip, classic.ua, n) \in 0..(n - 1)

\* C6, witness: a request whose seed hashes to the bit pattern of -2^31.
C6_Witness ==
    /\ classic.sent
    /\ HashLoop(Zero32, Seed(classic.today, classic.ip, classic.ua), 1)
          = [hi |-> 32768, lo |-> 0]
    /\ classic.idx = 0

\* C10: a request with the date string, IP and user-agent of the request
\* before it gets the index that request got.
C10_SameTripleSameIndex ==
    (classic.sent /\ classic.prevSame) => classic.idx = classic.prevIdx

\* C10, witness: two requests in a row with the same date string, IP and
\* user-agent that came with different tz parameters.
C10_Witness ==
    /\ classic.sent
    /\ classic.prevSame
    /\ classic.prevOther
    /\ classic.tz = Z_Tokyo
    /\ classic.idx = classic.prevIdx

\* C12: a request that found no live entry is at the provider whatever
\* the other requests in flight do, and a request that ends after a write
\* leaves its own text under its key, whatever was there: of two requests
\* that both missed, the one that writes last decides the entry.
C12_State ==
    \A r \in Awaiting : r.seen \in {"absent", "expired"} /\ r.call \in {"sent", "nokey"}

C12_Step ==
    (last' # last /\ last'.req.wrote) =>
        /\ last'.req.key \in DOMAIN aiCache'
        /\ aiCache'[last'.req.key].fortune = last'.req.gen
        /\ wroteAt'[last'.req.key] = now

C12_LastWriteWins == [](C12_State) /\ [][C12_Step]_vars

\* C12, witness: two requests with one key were at the provider together;
\* the one that ended last had found no entry, got source "openai", and
\* its text replaced the different text the other one had written and
\* returned.
C12_Witness ==
    /\ Ended
    /\ last.resp.source = "openai"
    /\ last.req.seen = "absent"
    /\ last.req.call = "sent"
    /\ last.req.key \in DOMAIN firstGen
    /\ ~SliceThrows(last.req.userId)
    /\ firstGen[last.req.key].fortune # last.resp.fortune
    /\ aiCache[last.req.key].fortune = last.resp.fortune

\* C13 (as stated): a request answered from the cache has, component by
\* component, the userId, lang, theme, lines and localDate of the request
\* that wrote the entry, and no request has the key of an entry written
\* from other components.
C13_HitOnlyForSameTuple ==
    /\ (Ended /\ last.resp.source = "cache") =>
          KeyParts(last.req) = madeBy[last.req.key]
    /\ \A r \in Awaiting :
          r.key \in DOMAIN madeBy => KeyParts(r) = madeBy[r.key]

\* C14 (as stated): a step changes the cache only when a request ends in
\* it with source "openai", and then only the entry of that request's key;
\* a request that ends with 400, 502, "fallback" or "cache" leaves the
\* cache as it was.
C14_Step ==
    /\ (aiCache' # aiCache) =>
          /\ last'.resp.source = "openai"
          /\ last'.req.key \in DOMAIN aiCache'
          /\ DOMAIN aiCache' = DOMAIN aiCache \cup {last'.req.key}
          /\ \A k \in DOMAIN aiCache : k # last'.req.key => aiCache'[k] = aiCache[k]
    /\ (last' # last /\ last'.resp.source # "openai") => aiCache' = aiCache

C14_OnlyOpenAiChangesCache == [][C14_Step]_vars

\* C15: no step removes a key from the cache, and an entry changes only
\* when a request for its key ends after a provider answer and a write;
\* the passage of time changes nothing, so an expired entry stays.
C15_Step ==
    \A k \in DOMAIN aiCache :
        /\ k \in DOMAIN aiCache'
        /\ (aiCache'[k] # aiCache[k]) =>
              /\ last'.req.key = k
              /\ last'.req.returned
              /\ last'.req.wrote
              /\ aiCache'[k].fortune = last'.req.gen
        /\ (now' # now) => aiCache'[k] = aiCache[k]

C15_KeysOnlyGrow == [][C15_Step]_vars

\* C15, witness: an entry whose expiry has passed is still in the map after
\* a later request wrote the entry of another key.
C15_Witness ==
    /\ Ended
    /\ last.req.wrote
    /\ \E k \in DOMAIN aiCache :
          /\ k # last.req.key
          /\ aiCache[k].expiresAt <= now
          /\ wroteAt[last.req.key] >= aiCache[k].expiresAt

\* C17: a request that got past the localDate test has a userId: the
\* cookie's value itself, with no cookie set, when it presented one, and
\* else a new token of 32 hexadecimal digits, set as the cookie; the key
\* starts with that userId; a request that did not get past the test, the
\* one answered with 400 included, has no userId and sets no cookie.
IdentityEstablished(r) ==
    /\ (r.userId # Undefined /\ Truthy(r.cookie)) =>
          (r.userId = r.cookie /\ r.setCookie = Undefined)
    /\ (r.userId # Undefined /\ ~Truthy(r.cookie)) =>
          /\ r.userId.t = "str"
          /\ r.userId.s \in FreshIds
          /\ Len(r.userId.s) = 32
          /\ r.setCookie = r.userId
    /\ (r.key # <<>>) =>
          SubSeq(r.key, 1, Len(ToStr(r.userId)) + 1) = ToStr(r.userId) \o <<COLON>>
    /\ (r.dateOk /\ r.threw \notin {"lines", "localDate"}) => r.userId # Undefined
    /\ (~r.dateOk) => (r.userId = Undefined /\ r.setCookie = Undefined)

C17_IdentityAfterValidation ==
    /\ \A r \in Awaiting : IdentityEstablished(r)
    /\ Ended =>
          /\ IdentityEstablished(last.req)
          /\ (last.resp.status = 400) =>
                (last.req.userId = Undefined /\ last.req.setCookie = Undefined)

\* C17, witness: a request without a cookie got a new token, a set-cookie
\* for it and a generated fortune under a key that starts with it.
C17_Witness ==
    /\ Ended
    /\ last.req.cookie = Undefined
    /\ last.req.userId = JsStr(HexId(98))
    /\ last.req.setCookie = last.req.userId
    /\ last.resp.source = "openai"
    /\ SubSeq(last.req.key, 1, 33) = HexId(98) \o <<COLON>>

\* C18: with a provider whose calls settle, a request that waits for the
\* provider is answered in the end; an answer is one of the five (400,
\* cache hit, openai, 502, fallback); and only the provider's answer or
\* throw ends the wait: the passage of time does not.
C18_State ==
    Ended =>
        \/ last.resp.status = 400 /\ last.resp.source = ""
        \/ last.resp.status = 502 /\ last.resp.source = ""
        \/ last.resp.status = 200 /\ last.resp.source \in {"cache", "openai", "fallback"}

C18_Step ==
    \A s \in Slots :
        (req[s].pc = "awaiting" /\ req'[s] # req[s]) =>
            /\ req'[s].pc = "idle"
            /\ last'.req.key = req[s].key
            /\ last'.req.returned \/ last'.req.threw = "provider"
            /\ last'.resp.status # 0
            /\ now' = now

C18_EveryRequestAnswered ==
    /\ [](C18_State)
    /\ [][C18_Step]_vars
    /\ \A s \in Slots : (req[s].pc = "awaiting") ~> (req[s].pc = "idle")

\* C18, witness: a request whose provider call was sent is answered when
\* the provider throws, while another request still waits and the clock
\* has passed a whole TTL.
C18_Witness ==
    /\ Ended
    /\ last.req.threw = "provider"
    /\ last.req.call = "sent"
    /\ now >= TtlMs
    /\ wroteAt = <<>>
    /\ \E s \in Slots : req[s].pc = "awaiting"

\* C20 (as stated): for a request with a valid time zone, secondsUntilNext
\* is 86400 minus the whole seconds since midnight on the wall clock of
\* that zone.
C20_CountdownFromLocalMidnight ==
    (classic.sent /\ classic.tz \in KnownZones) =>
        classic.secondsUntilNext = 86400 - classic.sinceMidnight

-----------------------------------------------------------------------------
(* The functions on their own: SpecPure calls formatFortune, the            *)
(* normalisation of lines 115-117 and the hash loop of line 28 on inputs    *)
(* drawn from bounded sets.                                                 *)

Rep(c, n) == [i \in 1..n |-> c]

\* The lines a provider text is made of: empty, short, padded with white
\* space, of exactly maxPerLine code units, one more (bare, by a leading
\* space, or by a carriage return inside), and longer.
FormatLines ==
    {<<>>,
     <<SP, 97, SP>>,
     Rep(97, maxPerLine),
     <<SP>> \o Rep(97, maxPerLine),
     Rep(97, maxPerLine - 1) \o <<CR, 97>>,
     Rep(98, maxPerLine + 1)}

\* The texts: at most MaxFormatLines of these lines, joined by line feeds.
MaxFormatLines == 3
FormatTexts == {JoinLF(ls) : ls \in UNION {[1..k -> FormatLines] : k \in 0..MaxFormatLines}}

\* formatFortune(text, n) as line 134 calls it, n being 1 or 2 (line 117).
\* The function reads no state, so a behaviour calls it once.
FormatCall(text, n) ==
    /\ pure.fn = "none"
    /\ pure' = [fn |-> "formatFortune", text |-> text, lines |-> n,
                out |-> formatFortune(text, n)]
    /\ UNCHANGED <<now, hasKey, aiCache, req, last, nCalls, nTick, firstGen, wroteAt, madeBy,
                   hostTz, classic>>

\* The lines of a formatted text.
OutLines(out) == IF out = <<>> THEN <<>> ELSE SplitLF(out)

\* The lines of the input that are not blank, as the input has them.
InLines(text) == SelectSeq(SplitLF(text), LAMBDA l : Trim(RemoveCR(l)) # <<>>)

\* C11 (as stated): at most n lines, none empty, none longer than 140; an
\* input line longer than 140 that is kept is its first 139 code units and
\* the ellipsis, and one of 140 or fewer is kept unchanged.
C11_InputLinesTruncated ==
    pure.fn = "formatFortune" =>
        LET outs == OutLines(pure.out)
            ins == InLines(pure.text)
        IN /\ Len(outs) <= pure.lines
           /\ \A i \in 1..Len(outs) :
                 /\ outs[i] # <<>>
                 /\ Len(outs[i]) <= 140
                 /\ outs[i] = IF Len(ins[i]) > 140
                              THEN SubSeq(ins[i], 1, 139) \o <<ELLIPSIS>>
                              ELSE ins[i]

\* C11 (amended): at most n lines, none empty, none longer than 140; the
\* lines are the first n non-blank input lines, each with its carriage
\* returns removed and its surrounding white space trimmed, and then, when
\* it is still longer than 140, cut to its first 139 code units and the
\* ellipsis.
C11_TrimmedLinesTruncated ==
    pure.fn = "formatFortune" =>
        LET outs == OutLines(pure.out)
            ins == InLines(pure.text)
        IN /\ Len(outs) = Min(pure.lines, Len(ins))
           /\ Len(outs) <= pure.lines
           /\ \A i \in 1..Len(outs) :
                 LET l == Trim(RemoveCR(ins[i]))
                 IN /\ outs[i] # <<>>
                    /\ Len(outs[i]) <= 140
                    /\ outs[i] = IF Len(l) > 140
                                 THEN SubSeq(l, 1, 139) \o <<ELLIPSIS>>
                                 ELSE l

\* C11, witness: three non-blank input lines and n = 2; the first is cut
\* to 139 code units and the ellipsis, the second has 141 code units in the
\* input and 140, without the ellipsis, in the output.
C11_Witness ==
    /\ pure.fn = "formatFortune"
    /\ pure.lines = 2
    /\ Len(InLines(pure.text)) = 3
    /\ Len(InLines(pure.text)[2]) = 141
    /\ OutLines(pure.out) = <<Rep(98, 139) \o <<ELLIPSIS>>, Rep(97, 140)>>

\* The lang and lines values of a body that the normalisation is called on.
S_TR == <<84, 82>>
LangInputs ==
    {Undefined, JsNull, JsNum(1), JsStr(S_tr), JsStr(S_en), JsStr(S_de), JsStr(S_TR),
     JsStr(S_tr \o <<SP>>)}

MaxLines == 4
LinesInputs ==
    {Undefined, JsNull, JsExp(1, <<50, 49>>)}
        \cup {JsNum(k) : k \in (-1)..MaxLines}
        \cup {JsStr(t) : t \in {<<>>, <<120>>, <<50>>, <<SP, 50>>, <<51, 97>>, <<MINUS, 53>>,
                                <<49, 48>>}}

\* Lines 115-117 on the lang and lines of a body, and the key line 125
\* builds with them for a fixed userId, theme and localDate.
NormalizeCall(langV, linesV) ==
    /\ pure.fn = "none"
    /\ LET lang == NormLang(Default(langV, JsStr(S_en)))
           lines == NormLines(Default(linesV, JsNum(2)))
       IN pure' = [fn |-> "normalize", rawLang |-> langV, rawLines |-> linesV,
                   lang |-> lang, lines |-> lines,
                   key |-> MakeKey(Returning, lang, JsStr(S_relationship), lines, JsStr(D_ok))]
    /\ UNCHANGED <<now, hasKey, aiCache, req, last, nCalls, nTick, firstGen, wroteAt, madeBy,
                   hostTz, classic>>

\* The line count the claim gives a lines value: 2 when it is absent; for
\* a number, 1 below 1 and 2 above 2; for another value, 1 when parseInt
\* finds no integer in its string, else that integer, 1 below 1 and 2
\* above 2.
ClampedLines(v) ==
    IF v.t = "undefined" THEN 2
    ELSE IF v.t = "exp" THEN 2
    ELSE IF v.t = "num" THEN Min(Max(v.n, 1), 2)
    ELSE LET p == ParseInt(v) IN IF p.nan THEN 1 ELSE Min(Max(p.n, 1), 2)

\* C16 (as stated): lang is "tr" exactly when the request's lang is the
\* string "tr", and "en" otherwise; lines is 1 or 2: 2 when absent, 1 for
\* values below 1 or without an integer, 2 for values above 2.
C16_LangAndLinesNormalized ==
    pure.fn = "normalize" =>
        /\ pure.lang = (IF pure.rawLang = JsStr(S_tr) THEN S_tr ELSE S_en)
        /\ pure.lines \in {1, 2}
        /\ pure.lines = ClampedLines(pure.rawLines)

\* The strings hashString is called on: every string of at most MaxHashLen
\* code units over 0, "a" and 0xFFFF (five of the last overflow 32 bits),
\* and the seed "2024-11-03|10.0.0.1|B5zbids", whose hash wraps to -2^31.
MaxHashLen == 6
HashAlphabet == {0, 97, 65535}
HashInputs ==
    UNION {[1..n -> HashAlphabet] : n \in 0..MaxHashLen}
        \cup {Seed(DateString(0), IP_10, UA_min)}

HashCall(s) ==
    /\ pure.fn = "none"
    /\ pure' = [fn |-> "hashString", s |-> s, out |-> hashString(s)]
    /\ UNCHANGED <<now, hasKey, aiCache, req, last, nCalls, nTick, firstGen, wroteAt, madeBy,
                   hostTz, classic>>

\* The reference rolling hash: h * 31 + c, wrapped to 32 bits, on the
\* 16-bit halves by multiplication.
RefStep(h, c) ==
    LET lo == (h.lo * 31) + c
        hi == (h.hi * 31) + (lo \div W16)
    IN [hi |-> hi % W16, lo |-> lo % W16]

RECURSIVE RefLoop(_, _, _)
RefLoop(h, s, i) ==
    IF i > Len(s) THEN h
    ELSE LET h2 == RefStep(h, s[i])
         IN IF h2.lo >= 0 THEN RefLoop(h2, s, i + 1) ELSE h2

\* The absolute value of the signed 32-bit integer with bit pattern h: for
\* a negative one, the complement plus one.
RefAbs(h) ==
    IF h.hi < 32768 THEN [neg |-> FALSE, hi |-> h.hi, lo |-> h.lo]
    ELSE IF h.lo = 0 THEN [neg |-> FALSE, hi |-> W16 - h.hi, lo |-> 0]
    ELSE [neg |-> FALSE, hi |-> W16 - 1 - h.hi, lo |-> W16 - h.lo]

\* C19: after every prefix of s the loop of the code holds the value of
\* the reference hash (h * 31 + c wrapped to 32 bits); hashString(s) is the
\* absolute value of the reference hash of s, and lies in [0, 2^31].
C19_HashIsAbsOfRollingHash ==
    pure.fn = "hashString" =>
        /\ \A k \in 0..Len(pure.s) :
              HashLoop(Zero32, SubSeq(pure.s, 1, k), 1) = RefLoop(Zero32, SubSeq(pure.s, 1, k), 1)
        /\ pure.out = RefAbs(RefLoop(Zero32, pure.s, 1))
        /\ ~pure.out.neg
        /\ pure.out.hi < 32768 \/ (pure.out.hi = 32768 /\ pure.out.lo = 0)

\* C19, witness: a string whose reference hash is -2^31, and whose
\* hashString is 2^31.
C19_Witness ==
    /\ pure.fn = "hashString"
    /\ RefLoop(Zero32, pure.s, 1) = [hi |-> 32768, lo |-> 0]
    /\ pure.out = [neg |-> FALSE, hi |-> 32768, lo |-> 0]

NextPure ==
    \/ \E text \in FormatTexts, n \in {1, 2} : FormatCall(text, n)
    \/ \E langV \in LangInputs, linesV \in LinesInputs : NormalizeCall(langV, linesV)
    \/ \E s \in HashInputs : HashCall(s)

InitPure ==
    /\ now = 0
    /\ hasKey = TRUE
    /\ aiCache = <<>>
    /\ req = [s \in Slots |-> IdleReq]
    /\ last = [req |-> IdleReq, resp |-> NoResp]
    /\ nCalls = 0
    /\ nTick = 0
    /\ firstGen = <<>>
    /\ wroteAt = <<>>
    /\ madeBy = <<>>
    /\ hostTz = Z_UTC
    /\ classic = NoClassic
    /\ pure = NoPure

SpecPure == InitPure /\ [][NextPure]_vars

=============================================================================
